---- MODULE Spec2Model ----
(***************************************************************************)
(* Model of the MySQL code completion entry point                          *)
(* (library/parsers/code-completion/mysql-code-completion.cpp):            *)
(* candidate post-processing, qualifier analysis on the token stream,      *)
(* the per-group completion sets and the assembly of the result list.      *)
(*                                                                         *)
(* Strings are sequences of one-character strings, token indexes are       *)
(* 0-based as in the scanner.                                              *)
(***************************************************************************)
EXTENDS Integers, Sequences, FiniteSets, TLC

VARIABLES
  input,                 \* the arguments of one getCodeCompletionList call
  pc,                    \* position inside the call
  completionCandidates,  \* AutoCompletionContext::completionCandidates
  referencesStack,       \* AutoCompletionContext::referencesStack
  references,            \* AutoCompletionContext::references
  tokenIndex,            \* the scanner's current token index
  tokenStack,            \* the scanner's saved-position stack
  entries,               \* the CompletionSet locals, by name
  rulesLeft,             \* rule candidates the rule loop still has to visit
  qres,                  \* flags and qualifier parts of the last analysis
  result                 \* the returned vector

vars == <<input, pc, completionCandidates, referencesStack, references,
          tokenIndex, tokenStack, entries, rulesLeft, qres, result>>

-----------------------------------------------------------------------------
(* Bounds of the model.                                                    *)

\* Largest number of rule candidates the engine reports in one call.
MaxRules == 2

\* Largest number of tokens (before EOF) of an enumerated token stream.
MaxStreamLen == 5

\* Largest number of table references on an enumerated reference stack.
MaxReferences == 2

-----------------------------------------------------------------------------
(* Strings.                                                                *)

\* The back tick character, which a string literal cannot hold.
BackTick == "BACKTICK"

\* Characters in code point order.
Alphabet == <<" ", "\"", "'", "(", ")", "1", "2", "3", "4", "8", "<", ">",
              "A", "B", "C", "D", "E", "F", "G", "H", "I", "J", "K", "L", "M",
              "N", "O", "P", "Q", "R", "S", "T", "U", "V", "W", "X", "Y", "Z",
              "_", BackTick,
              "a", "b", "c", "d", "e", "f", "g", "h", "i", "j", "k", "l", "m",
              "n", "o", "p", "q", "r", "s", "t", "u", "v", "w", "x", "y", "z">>

CharCode(c) == CHOOSE i \in 1..Len(Alphabet) : Alphabet[i] = c

UpperChars == <<"A", "B", "C", "D", "E", "F", "G", "H", "I", "J", "K", "L", "M",
                "N", "O", "P", "Q", "R", "S", "T", "U", "V", "W", "X", "Y", "Z">>

LowerChars == <<"a", "b", "c", "d", "e", "f", "g", "h", "i", "j", "k", "l", "m",
                "n", "o", "p", "q", "r", "s", "t", "u", "v", "w", "x", "y", "z">>

LowerChar(c) ==
  IF \E i \in 1..Len(UpperChars) : UpperChars[i] = c
  THEN LowerChars[CHOOSE i \in 1..Len(UpperChars) : UpperChars[i] = c]
  ELSE c

\* base::tolower
tolower(s) == [i \in 1..Len(s) |-> LowerChar(s[i])]

\* Lexicographic "less than" by code point.
RECURSIVE StrLess(_, _)
StrLess(a, b) ==
  IF b = <<>> THEN FALSE
  ELSE IF a = <<>> THEN TRUE
  ELSE IF a[1] # b[1] THEN CharCode(a[1]) < CharCode(b[1])
  ELSE StrLess(Tail(a), Tail(b))

\* base::string_compare(lhs, rhs, false) < 0 : case-insensitive comparison.
string_compare_less(lhs, rhs) == StrLess(tolower(lhs), tolower(rhs))

\* base::same_string(a, b) with the default case-insensitive comparison.
same_string(a, b) == tolower(a) = tolower(b)

QuoteChars == {"\"", "'", BackTick}

\* base::unquote : strips one pair of equal surrounding quote characters.
unquote(text) ==
  IF Len(text) >= 2 /\ text[1] \in QuoteChars /\ text[Len(text)] = text[1]
  THEN SubSeq(text, 2, Len(text) - 1)
  ELSE text

SymbolSuffix == <<"_", "S", "Y", "M", "B", "O", "L">>

\* entry.rfind("_SYMBOL") != std::string::npos
HasSymbolSuffix(entry) ==
  \E i \in 1..Len(entry) :
    /\ i + Len(SymbolSuffix) - 1 <= Len(entry)
    /\ SubSeq(entry, i, i + Len(SymbolSuffix) - 1) = SymbolSuffix

\* The display text of a token: "_SYMBOL" names lose their last seven
\* characters, every other name is unquoted.
StripDisplayName(entry) ==
  IF HasSymbolSuffix(entry)
  THEN SubSeq(entry, 1, Len(entry) - Len(SymbolSuffix))
  ELSE unquote(entry)

\* base::split_by_set(text, " \t\n") restricted to blanks.
RECURSIVE split_by_set(_)
split_by_set(text) ==
  IF \A i \in 1..Len(text) : text[i] # " "
  THEN <<text>>
  ELSE LET p == CHOOSE i \in 1..Len(text) :
                  text[i] = " " /\ \A j \in 1..(i - 1) : text[j] # " "
       IN <<SubSeq(text, 1, p - 1)>> \o split_by_set(SubSeq(text, p + 1, Len(text)))

-----------------------------------------------------------------------------
(* Tokens and the scanner.                                                 *)

Tok(type, channel, text) == [type |-> type, channel |-> channel, text |-> text]

TokA     == Tok("IDENTIFIER", 0, <<"a">>)
TokB     == Tok("BACK_TICK_QUOTED_ID", 0, <<BackTick, "b", BackTick>>)
TokDot   == Tok("DOT_SYMBOL", 0, <<".">>)
TokWs    == Tok("WHITESPACE", 1, <<" ">>)
TokEof   == Tok("EOF", 0, <<>>)
TokComment == Tok("BLOCK_COMMENT", 1, <<"/", "*", "*", "/">>)

InvalidType == "INVALID_TYPE"

\* MySQLLexer::isIdentifier : identifiers and keywords that are not reserved.
isIdentifier(type) == type \in {"IDENTIFIER", "BACK_TICK_QUOTED_ID", "NEW_SYMBOL"}

tokenType(toks, index) == toks[index + 1].type
tokenChannel(toks, index) == toks[index + 1].channel
tokenText(toks, index) == toks[index + 1].text
is(toks, index, type) == tokenType(toks, index) = type

\* Scanner::next(true) : the next token on the default channel, or the last
\* token of the stream when there is none.
next(toks, index) ==
  LET later == {j \in (index + 1)..(Len(toks) - 1) : tokenChannel(toks, j) = 0}
  IN IF later # {} THEN CHOOSE j \in later : \A k \in later : j <= k
     ELSE Len(toks) - 1

\* Scanner::previous(true) : the previous token on the default channel, or
\* the first token of the stream when there is none.
previous(toks, index) ==
  LET earlier == {j \in 0..(index - 1) : tokenChannel(toks, j) = 0}
  IN IF earlier # {} THEN CHOOSE j \in earlier : \A k \in earlier : j >= k
     ELSE 0

\* Scanner::lookBack() : the type of the previous default channel token.
lookBack(toks, index) ==
  LET earlier == {j \in 0..(index - 1) : tokenChannel(toks, j) = 0}
  IN IF earlier # {}
     THEN tokenType(toks, CHOOSE j \in earlier : \A k \in earlier : j >= k)
     ELSE InvalidType

-----------------------------------------------------------------------------
(* Qualifier analysis.                                                     *)

ShowSchemas == 1
ShowTables  == 2
ShowColumns == 4
ShowFirst   == 8
ShowSecond  == 16

\* (flags & flag) != 0
HasFlag(flags, flag) == (flags \div flag) % 2 = 1

\* A start that does not skip a hidden caret token first.
QualifierStartNoSkip(toks, position) ==
  IF ~is(toks, position, "DOT_SYMBOL") /\ ~isIdentifier(tokenType(toks, position))
  THEN previous(toks, position)
  ELSE position

\* The token the analysis starts from: the first default channel token at or
\* after the caret, or the token before it when that is neither an
\* identifier nor a dot.
QualifierStart(toks, position) ==
  LET i1 == IF tokenChannel(toks, position) # 0 THEN next(toks, position) ELSE position
  IN IF ~is(toks, i1, "DOT_SYMBOL") /\ ~isIdentifier(tokenType(toks, i1))
     THEN previous(toks, i1)
     ELSE i1

\* if (isIdentifier(type) && lookBack() == DOT_SYMBOL) previous(true)
LeftOfIdentifier(toks, i) ==
  IF isIdentifier(tokenType(toks, i)) /\ lookBack(toks, i) = "DOT_SYMBOL"
  THEN previous(toks, i) ELSE i

\* if (is(DOT_SYMBOL) && isIdentifier(lookBack())) previous(true)
LeftOfDot(toks, i) ==
  IF is(toks, i, "DOT_SYMBOL") /\ isIdentifier(lookBack(toks, i))
  THEN previous(toks, i) ELSE i

\* if (isIdentifier(type)) { temp = unquote(text); next(true); } : the text.
IdentifierText(toks, i) ==
  IF isIdentifier(tokenType(toks, i)) THEN unquote(tokenText(toks, i)) ELSE <<>>

\* if (isIdentifier(type)) { temp = unquote(text); next(true); } : the position.
SkipIdentifier(toks, i) ==
  IF isIdentifier(tokenType(toks, i)) THEN next(toks, i) ELSE i

\* A "go left" part that does not step over the dot.
QualifierLeftNoDot(toks, position, i2) ==
  IF position > 0 THEN LeftOfIdentifier(toks, i2) ELSE i2

\* The scanner position after the "go left" part of determineQualifier.
QualifierLeft(toks, position, i2) ==
  IF position > 0 THEN LeftOfDot(toks, LeftOfIdentifier(toks, i2)) ELSE i2

\* A result that takes a dot as the qualifier's dot wherever it stands.
QualifierResultAnyDot(toks, position, temp, i5) ==
  IF ~is(toks, i5, "DOT_SYMBOL")
  THEN [flags |-> ShowFirst + ShowSecond, qualifier |-> <<>>,
        schema |-> <<>>, table |-> <<>>, index |-> i5]
  ELSE [flags |-> ShowSecond, qualifier |-> temp,
        schema |-> <<>>, table |-> <<>>, index |-> i5]

\* The result of determineQualifier once the first identifier is skipped.
QualifierResult(toks, position, temp, i5) ==
  IF ~is(toks, i5, "DOT_SYMBOL") \/ position <= i5
  THEN [flags |-> ShowFirst + ShowSecond, qualifier |-> <<>>,
        schema |-> <<>>, table |-> <<>>, index |-> i5]
  ELSE [flags |-> ShowSecond, qualifier |-> temp,
        schema |-> <<>>, table |-> <<>>, index |-> i5]

\* determineQualifier from the leftmost token of the identifier.
QualifierRight(toks, position, i4) ==
  QualifierResult(toks, position, IdentifierText(toks, i4), SkipIdentifier(toks, i4))

determineQualifier(toks, start) ==
  QualifierRight(toks, start, QualifierLeft(toks, start, QualifierStart(toks, start)))

\* if (isIdentifier(lookBack())) previous(true) : the schema part.
SchemaTableLeftFirst(toks, i5) ==
  IF isIdentifier(lookBack(toks, i5)) THEN previous(toks, i5) ELSE i5

\* if (lookBack() == DOT_SYMBOL) { previous(true); ... } : the second dot.
SchemaTableLeftSecond(toks, i4) ==
  IF lookBack(toks, i4) = "DOT_SYMBOL"
  THEN SchemaTableLeftFirst(toks, previous(toks, i4)) ELSE i4

\* if (is(DOT_SYMBOL) && isIdentifier(lookBack())) { previous(true); ... }
SchemaTableLeftDots(toks, i3) ==
  IF is(toks, i3, "DOT_SYMBOL") /\ isIdentifier(lookBack(toks, i3))
  THEN SchemaTableLeftSecond(toks, previous(toks, i3)) ELSE i3

\* A "go left" part that stops after the first dot.
SchemaTableLeftOneDot(toks, position, i2) ==
  IF position > 0 THEN LeftOfDot(toks, LeftOfIdentifier(toks, i2)) ELSE i2

\* The scanner position after the "go left" part of
\* determineSchemaTableQualifier.
SchemaTableLeft(toks, position, i2) ==
  IF position > 0 THEN SchemaTableLeftDots(toks, LeftOfIdentifier(toks, i2)) ELSE i2

\* A third part that takes the second identifier for the table in both cases.
SchemaTableThirdNoTable(toks, position, temp, temp2, i9) ==
  IF ~is(toks, i9, "DOT_SYMBOL") \/ position <= i9
  THEN [flags |-> ShowTables + ShowColumns, qualifier |-> <<>>,
        schema |-> temp, table |-> temp2, index |-> i9]
  ELSE [flags |-> ShowColumns, qualifier |-> <<>>,
        schema |-> temp, table |-> temp2, index |-> i9]

\* The result once schema, dot and table are read.
SchemaTableThird(toks, position, temp, temp2, i9) ==
  IF ~is(toks, i9, "DOT_SYMBOL") \/ position <= i9
  THEN [flags |-> ShowTables + ShowColumns, qualifier |-> <<>>,
        schema |-> temp, table |-> temp, index |-> i9]
  ELSE [flags |-> ShowColumns, qualifier |-> <<>>,
        schema |-> temp, table |-> temp2, index |-> i9]

\* The result once the first identifier and its dot are read.
SchemaTableSecond(toks, position, temp, i8) ==
  IF isIdentifier(tokenType(toks, i8))
  THEN SchemaTableThird(toks, position, temp, unquote(tokenText(toks, i8)), next(toks, i8))
  ELSE [flags |-> ShowTables + ShowColumns, qualifier |-> <<>>,
        schema |-> temp, table |-> temp, index |-> i8]

\* The result of determineSchemaTableQualifier once the first identifier is
\* skipped.
SchemaTableResult(toks, position, temp, i7) ==
  IF ~is(toks, i7, "DOT_SYMBOL") \/ position <= i7
  THEN [flags |-> ShowSchemas + ShowTables + ShowColumns, qualifier |-> <<>>,
        schema |-> <<>>, table |-> <<>>, index |-> i7]
  ELSE SchemaTableSecond(toks, position, temp, next(toks, i7))

\* determineSchemaTableQualifier from the leftmost token of the identifier.
SchemaTableRight(toks, position, i6) ==
  SchemaTableResult(toks, position, IdentifierText(toks, i6), SkipIdentifier(toks, i6))

determineSchemaTableQualifier(toks, start) ==
  SchemaTableRight(toks, start, SchemaTableLeft(toks, start, QualifierStart(toks, start)))

-----------------------------------------------------------------------------
(* Completion sets.                                                        *)

\* The kinds of completion entries.
AC_KEYWORD_IMAGE       == "AC_KEYWORD_IMAGE"
AC_COLUMN_IMAGE        == "AC_COLUMN_IMAGE"
AC_TABLE_IMAGE         == "AC_TABLE_IMAGE"
AC_VIEW_IMAGE          == "AC_VIEW_IMAGE"
AC_SCHEMA_IMAGE        == "AC_SCHEMA_IMAGE"
AC_ROUTINE_IMAGE       == "AC_ROUTINE_IMAGE"
AC_FUNCTION_IMAGE      == "AC_FUNCTION_IMAGE"
AC_TRIGGER_IMAGE       == "AC_TRIGGER_IMAGE"
AC_EVENT_IMAGE         == "AC_EVENT_IMAGE"
AC_ENGINE_IMAGE        == "AC_ENGINE_IMAGE"
AC_LOGFILE_GROUP_IMAGE == "AC_LOGFILE_GROUP_IMAGE"
AC_TABLESPACE_IMAGE    == "AC_TABLESPACE_IMAGE"
AC_CHARSET_IMAGE       == "AC_CHARSET_IMAGE"
AC_COLLATION_IMAGE     == "AC_COLLATION_IMAGE"
AC_USER_VAR_IMAGE      == "AC_USER_VAR_IMAGE"
AC_SYSTEM_VAR_IMAGE    == "AC_SYSTEM_VAR_IMAGE"

Entry(kind, text) == [kind |-> kind, text |-> text]

\* CompareAcEntries::operator() : only the texts are compared.
CompareAcEntries(lhs, rhs) == string_compare_less(lhs.text, rhs.text)

\* CompletionSet::insert : a std::set, kept as the sequence of its elements
\* in iteration order.  An element equivalent to the new one keeps its place.
CompletionSetInsert(set, e) ==
  IF \E i \in 1..Len(set) : ~CompareAcEntries(set[i], e) /\ ~CompareAcEntries(e, set[i])
  THEN set
  ELSE LET before == {i \in 1..Len(set) : CompareAcEntries(set[i], e)}
           n == Cardinality(before)
       IN SubSeq(set, 1, n) \o <<e>> \o SubSeq(set, n + 1, Len(set))

\* for (auto &name : names) set.insert({kind, name});
RECURSIVE InsertNames(_, _, _)
InsertNames(set, kind, names) ==
  IF names = <<>> THEN set
  ELSE InsertNames(CompletionSetInsert(set, Entry(kind, Head(names))), kind, Tail(names))

\* std::set<std::string>::insert, kept as the sequence of its elements in
\* iteration order (byte order, case-sensitive).
StringSetInsert(set, x) ==
  IF \E i \in 1..Len(set) : set[i] = x
  THEN set
  ELSE LET n == Cardinality({i \in 1..Len(set) : StrLess(set[i], x)})
       IN SubSeq(set, 1, n) \o <<x>> \o SubSeq(set, n + 1, Len(set))

RECURSIVE StringSetInsertAll(_, _)
StringSetInsertAll(set, xs) ==
  IF xs = <<>> THEN set
  ELSE StringSetInsertAll(StringSetInsert(set, Head(xs)), Tail(xs))

StringSetCount(set, x) == Cardinality({i \in 1..Len(set) : set[i] = x})

\* The CompletionSet locals of getCodeCompletionList.
SetNames == {"schemaEntries", "tableEntries", "columnEntries", "viewEntries",
             "functionEntries", "udfEntries", "runtimeFunctionEntries",
             "procedureEntries", "triggerEntries", "engineEntries",
             "logfileGroupEntries", "tablespaceEntries", "systemVarEntries",
             "keywordEntries", "collationEntries", "charsetEntries",
             "eventEntries", "userVarEntries", "userEntries", "indexEntries",
             "pluginEntries", "fkEntries"}

EmptySets == [n \in SetNames |-> <<>>]

-----------------------------------------------------------------------------
(* The object names cache.                                                 *)

Lookup(f, k) == IF k \in DOMAIN f THEN f[k] ELSE <<>>

getMatchingSchemaNames(cache) == cache.schemas
getMatchingTableNames(cache, schema) == Lookup(cache.tables, schema)
getMatchingViewNames(cache, schema) == Lookup(cache.views, schema)
getMatchingColumnNames(cache, schema, table) == Lookup(cache.columns, <<schema, table>>)
getMatchingFunctionNames(cache, schema) == Lookup(cache.functions, schema)
getMatchingProcedureNames(cache, schema) == Lookup(cache.procedures, schema)
getMatchingUdfNames(cache) == cache.udfs
getMatchingTriggerNames(cache, schema, table) == Lookup(cache.triggers, <<schema, table>>)
getMatchingEvents(cache, schema) == Lookup(cache.events, schema)
getMatchingEngines(cache) == cache.engines
getMatchingLogfileGroups(cache) == cache.logfileGroups
getMatchingTablespaces(cache) == cache.tablespaces
getMatchingVariables(cache) == cache.variables
getMatchingCharsets(cache) == cache.charsets
getMatchingCollations(cache) == cache.collations

insertSchemas(cache, set) == InsertNames(set, AC_SCHEMA_IMAGE, getMatchingSchemaNames(cache))

RECURSIVE insertTables(_, _, _)
insertTables(cache, set, schemas) ==
  IF schemas = <<>> THEN set
  ELSE insertTables(cache,
                    InsertNames(set, AC_TABLE_IMAGE, getMatchingTableNames(cache, Head(schemas))),
                    Tail(schemas))

RECURSIVE insertViews(_, _, _)
insertViews(cache, set, schemas) ==
  IF schemas = <<>> THEN set
  ELSE insertViews(cache,
                   InsertNames(set, AC_VIEW_IMAGE, getMatchingViewNames(cache, Head(schemas))),
                   Tail(schemas))

RECURSIVE insertColumnsOfSchema(_, _, _, _)
insertColumnsOfSchema(cache, set, schema, tables) ==
  IF tables = <<>> THEN set
  ELSE insertColumnsOfSchema(cache,
         InsertNames(set, AC_COLUMN_IMAGE, getMatchingColumnNames(cache, schema, Head(tables))),
         schema, Tail(tables))

RECURSIVE insertColumns(_, _, _, _)
insertColumns(cache, set, schemas, tables) ==
  IF schemas = <<>> THEN set
  ELSE insertColumns(cache, insertColumnsOfSchema(cache, set, Head(schemas), tables),
                     Tail(schemas), tables)

-----------------------------------------------------------------------------
(* Keywords.                                                               *)

\* The initializer list of the static synonyms map, in source order.
synonymsInitializer == <<
  <<"CHAR_SYMBOL", <<<<"C", "H", "A", "R", "A", "C", "T", "E", "R">>>>>>,
  <<"NOW_SYMBOL", <<<<"C", "U", "R", "R", "E", "N", "T", "_", "T", "I", "M", "E", "S", "T", "A", "M", "P">>, <<"L", "O", "C", "A", "L", "T", "I", "M", "E">>, <<"L", "O", "C", "A", "L", "T", "I", "M", "E", "S", "T", "A", "M", "P">>>>>>,
  <<"DAY_SYMBOL", <<<<"D", "A", "Y", "O", "F", "M", "O", "N", "T", "H">>>>>>,
  <<"DECIMAL_SYMBOL", <<<<"D", "E", "C">>>>>>,
  <<"DISTINCT_SYMBOL", <<<<"D", "I", "S", "T", "I", "N", "C", "T", "R", "O", "W">>>>>>,
  <<"CHAR_SYMBOL", <<<<"C", "H", "A", "R", "A", "C", "T", "E", "R">>>>>>,
  <<"COLUMNS_SYMBOL", <<<<"F", "I", "E", "L", "D", "S">>>>>>,
  <<"FLOAT_SYMBOL", <<<<"F", "L", "O", "A", "T", "4">>>>>>,
  <<"DOUBLE_SYMBOL", <<<<"F", "L", "O", "A", "T", "8">>>>>>,
  <<"INT_SYMBOL", <<<<"I", "N", "T", "E", "G", "E", "R">>, <<"I", "N", "T", "4">>>>>>,
  <<"RELAY_THREAD_SYMBOL", <<<<"I", "O", "_", "T", "H", "R", "E", "A", "D">>>>>>,
  <<"SUBSTRING_SYMBOL", <<<<"M", "I", "D">>>>>>,
  <<"MID_SYMBOL", <<<<"M", "E", "D", "I", "U", "M", "I", "N", "T">>>>>>,
  <<"MEDIUMINT_SYMBOL", <<<<"M", "I", "D", "D", "L", "E", "I", "N", "T">>>>>>,
  <<"NDBCLUSTER_SYMBOL", <<<<"N", "D", "B">>>>>>,
  <<"REGEXP_SYMBOL", <<<<"R", "L", "I", "K", "E">>>>>>,
  <<"DATABASE_SYMBOL", <<<<"S", "C", "H", "E", "M", "A">>>>>>,
  <<"DATABASES_SYMBOL", <<<<"S", "C", "H", "E", "M", "A", "S">>>>>>,
  <<"USER_SYMBOL", <<<<"S", "E", "S", "S", "I", "O", "N", "_", "U", "S", "E", "R">>>>>>,
  <<"STD_SYMBOL", <<<<"S", "T", "D", "D", "E", "V">>, <<"S", "T", "D", "D", "E", "V">>>>>>,
  <<"SUBSTRING_SYMBOL", <<<<"S", "U", "B", "S", "T", "R">>>>>>,
  <<"VARCHAR_SYMBOL", <<<<"V", "A", "R", "C", "H", "A", "R", "A", "C", "T", "E", "R">>>>>>,
  <<"VARIANCE_SYMBOL", <<<<"V", "A", "R", "_", "P", "O", "P">>>>>>,
  <<"TINYINT_SYMBOL", <<<<"I", "N", "T", "1">>>>>>,
  <<"SMALLINT_SYMBOL", <<<<"I", "N", "T", "2">>>>>>,
  <<"MEDIUMINT_SYMBOL", <<<<"I", "N", "T", "3">>>>>>,
  <<"BIGINT_SYMBOL", <<<<"I", "N", "T", "8">>>>>>,
  <<"FRAC_SECOND_SYMBOL", <<<<"S", "Q", "L", "_", "T", "S", "I", "_", "F", "R", "A", "C", "_", "S", "E", "C", "O", "N", "D">>>>>>,
  <<"SECOND_SYMBOL", <<<<"S", "Q", "L", "_", "T", "S", "I", "_", "S", "E", "C", "O", "N", "D">>>>>>,
  <<"MINUTE_SYMBOL", <<<<"S", "Q", "L", "_", "T", "S", "I", "_", "M", "I", "N", "U", "T", "E">>>>>>,
  <<"HOUR_SYMBOL", <<<<"S", "Q", "L", "_", "T", "S", "I", "_", "H", "O", "U", "R">>>>>>,
  <<"DAY_SYMBOL", <<<<"S", "Q", "L", "_", "T", "S", "I", "_", "D", "A", "Y">>>>>>,
  <<"WEEK_SYMBOL", <<<<"S", "Q", "L", "_", "T", "S", "I", "_", "W", "E", "E", "K">>>>>>,
  <<"MONTH_SYMBOL", <<<<"S", "Q", "L", "_", "T", "S", "I", "_", "M", "O", "N", "T", "H">>>>>>,
  <<"QUARTER_SYMBOL", <<<<"S", "Q", "L", "_", "T", "S", "I", "_", "Q", "U", "A", "R", "T", "E", "R">>>>>>,
  <<"YEAR_SYMBOL", <<<<"S", "Q", "L", "_", "T", "S", "I", "_", "Y", "E", "A", "R">>>>>>
>>

\* std::map built from an initializer list: the first entry of a key wins.
synonyms ==
  [t \in {synonymsInitializer[i][1] : i \in 1..Len(synonymsInitializer)} |->
     synonymsInitializer[CHOOSE i \in 1..Len(synonymsInitializer) :
        /\ synonymsInitializer[i][1] = t
        /\ \A j \in 1..(i - 1) : synonymsInitializer[j][1] # t][2]]

\* Token ids in the iteration order of the candidate map.
TokenOrder == <<"BY_SYMBOL", "CHAR_SYMBOL", "GROUP_SYMBOL", "NOT_SYMBOL", "NOT2_SYMBOL", "NOW_SYMBOL", "OPEN_PAR_SYMBOL">>

\* dfa::Vocabulary::getDisplayName : the symbolic name of a keyword token,
\* the quoted literal of a punctuation token.
getDisplayName ==
  ("BY_SYMBOL" :> <<"B", "Y", "_", "S", "Y", "M", "B", "O", "L">>) @@
  ("CHAR_SYMBOL" :> <<"C", "H", "A", "R", "_", "S", "Y", "M", "B", "O", "L">>) @@
  ("GROUP_SYMBOL" :> <<"G", "R", "O", "U", "P", "_", "S", "Y", "M", "B", "O", "L">>) @@
  ("NOT_SYMBOL" :> <<"N", "O", "T", "_", "S", "Y", "M", "B", "O", "L">>) @@
  ("NOT2_SYMBOL" :> <<"N", "O", "T", "2", "_", "S", "Y", "M", "B", "O", "L">>) @@
  ("NOW_SYMBOL" :> <<"N", "O", "W", "_", "S", "Y", "M", "B", "O", "L">>) @@
  ("OPEN_PAR_SYMBOL" :> <<"'", "(", "'">>)

\* entry += " " + subEntry for every follow token.
RECURSIVE AppendFollow(_, _)
AppendFollow(entry, follow) ==
  IF follow = <<>> THEN entry
  ELSE AppendFollow(entry \o <<" ">> \o StripDisplayName(getDisplayName[Head(follow)]),
                    Tail(follow))

\* One iteration of the token candidate loop.
TokenCandidate(ents, token, follow, uppercaseKeywords) ==
  LET entry == StripDisplayName(getDisplayName[token])
  IN IF follow # <<>> /\ follow[1] = "OPEN_PAR_SYMBOL"
     THEN [ents EXCEPT !["runtimeFunctionEntries"] =
             CompletionSetInsert(@, Entry(AC_FUNCTION_IMAGE, tolower(entry) \o <<"(", ")">>))]
     ELSE LET full == AppendFollow(entry, follow)
              text == IF ~uppercaseKeywords THEN tolower(full) ELSE full
          IN [ents EXCEPT !["keywordEntries"] =
                CompletionSetInsert(@, Entry(AC_KEYWORD_IMAGE, text))]

\* The token candidate loop over the tokens of the map from position i on.
RECURSIVE TokenCandidatesFrom(_, _, _, _)
TokenCandidatesFrom(ents, tokens, uppercaseKeywords, i) ==
  IF i > Len(TokenOrder) THEN ents
  ELSE IF TokenOrder[i] \in DOMAIN tokens
       THEN TokenCandidatesFrom(
              TokenCandidate(ents, TokenOrder[i], tokens[TokenOrder[i]], uppercaseKeywords),
              tokens, uppercaseKeywords, i + 1)
       ELSE TokenCandidatesFrom(ents, tokens, uppercaseKeywords, i + 1)

-----------------------------------------------------------------------------
(* The completion context.                                                 *)

TableReference(schema, table, alias) == [schema |-> schema, table |-> table, alias |-> alias]

\* A post processing that copies NOT2 to NOT and leaves NOT2 in the map.
RenameNot2NoErase(tokens) ==
  IF "NOT2_SYMBOL" \in DOMAIN tokens
  THEN [t \in DOMAIN tokens \cup {"NOT_SYMBOL"} |->
          IF t = "NOT_SYMBOL" THEN tokens["NOT2_SYMBOL"] ELSE tokens[t]]
  ELSE tokens

\* The NOT2 post processing of collectCandidates.
RenameNot2(tokens) ==
  IF "NOT2_SYMBOL" \in DOMAIN tokens
  THEN [t \in (DOMAIN tokens \cup {"NOT_SYMBOL"}) \ {"NOT2_SYMBOL"} |->
          IF t = "NOT_SYMBOL" THEN tokens["NOT2_SYMBOL"] ELSE tokens[t]]
  ELSE tokens

\* collectRemainingTableReferences : declares a listener and returns.
collectRemainingTableReferences(stack) == stack

RECURSIVE FlattenStack(_)
FlattenStack(stack) ==
  IF stack = <<>> THEN <<>> ELSE Head(stack) \o FlattenStack(Tail(stack))

\* takeReferencesSnapshot : appends every reference of every level.
takeReferencesSnapshot(refs, stack) == refs \o FlattenStack(stack)

-----------------------------------------------------------------------------
(* The rule candidate handlers.  Each takes the call's arguments, the      *)
(* reference list, the completion sets and the scanner index and gives     *)
(* the new sets, scanner index and analysis result.                        *)

NoAnalysis == [flags |-> 0, qualifier |-> <<>>, schema |-> <<>>, table |-> <<>>, index |-> 0]

Handled(ents, index, q) == [entries |-> ents, index |-> index, qres |-> q]

\* function + "()" entries of the runtime function set.
RECURSIVE InsertCalls(_, _)
InsertCalls(set, names) ==
  IF names = <<>> THEN set
  ELSE InsertCalls(CompletionSetInsert(set, Entry(AC_FUNCTION_IMAGE, Head(names) \o <<"(", ")">>)),
                   Tail(names))

HandleRuntimeFunctionCall(in, refs, ents, index, q) ==
  Handled([ents EXCEPT !["runtimeFunctionEntries"] = InsertCalls(@, split_by_set(in.functionNames))],
          index, q)

HandleFunctionRef(in, refs, ents, q) ==
  Handled([ents EXCEPT
             !["runtimeFunctionEntries"] =
               IF q.qualifier = <<>> THEN InsertCalls(@, getMatchingUdfNames(in.cache)) ELSE @,
             !["schemaEntries"] =
               IF HasFlag(q.flags, ShowFirst) THEN insertSchemas(in.cache, @) ELSE @,
             !["functionEntries"] =
               IF HasFlag(q.flags, ShowSecond)
               THEN InsertNames(@, AC_ROUTINE_IMAGE,
                      getMatchingFunctionNames(in.cache,
                        IF q.qualifier = <<>> THEN in.defaultSchema ELSE q.qualifier))
               ELSE @],
          q.index, q)

HandleEngineRef(in, refs, ents, index, q) ==
  Handled([ents EXCEPT !["engineEntries"] =
             InsertNames(@, AC_ENGINE_IMAGE, getMatchingEngines(in.cache))], index, q)

HandleSchemaRef(in, refs, ents, index, q) ==
  Handled([ents EXCEPT !["schemaEntries"] = insertSchemas(in.cache, @)], index, q)

HandleProcedureRef(in, refs, ents, q) ==
  Handled([ents EXCEPT
             !["schemaEntries"] =
               IF HasFlag(q.flags, ShowFirst) THEN insertSchemas(in.cache, @) ELSE @,
             !["procedureEntries"] =
               IF HasFlag(q.flags, ShowSecond)
               THEN InsertNames(@, AC_ROUTINE_IMAGE,
                      getMatchingProcedureNames(in.cache,
                        IF q.qualifier = <<>> THEN in.defaultSchema ELSE q.qualifier))
               ELSE @],
          q.index, q)

\* insertTables and insertViews of one schema.
InsertTablesAndViews(in, ents, schemas) ==
  [ents EXCEPT !["tableEntries"] = insertTables(in.cache, @, schemas),
               !["viewEntries"] = insertViews(in.cache, @, schemas)]

HandleTableRefWithWildcard(in, refs, ents, q) ==
  Handled(IF HasFlag(q.flags, ShowTables)
          THEN InsertTablesAndViews(in,
                 [ents EXCEPT !["schemaEntries"] =
                    IF HasFlag(q.flags, ShowSchemas) THEN insertSchemas(in.cache, @) ELSE @],
                 <<IF q.schema = <<>> THEN in.defaultSchema ELSE q.schema>>)
          ELSE [ents EXCEPT !["schemaEntries"] =
                  IF HasFlag(q.flags, ShowSchemas) THEN insertSchemas(in.cache, @) ELSE @],
          q.index, q)

HandleTableRef(in, refs, ents, q) ==
  Handled(IF HasFlag(q.flags, ShowSecond)
          THEN InsertTablesAndViews(in,
                 [ents EXCEPT !["schemaEntries"] =
                    IF HasFlag(q.flags, ShowFirst) THEN insertSchemas(in.cache, @) ELSE @],
                 <<IF q.qualifier = <<>> THEN in.defaultSchema ELSE q.qualifier>>)
          ELSE [ents EXCEPT !["schemaEntries"] =
                  IF HasFlag(q.flags, ShowFirst) THEN insertSchemas(in.cache, @) ELSE @],
          q.index, q)

\* The schemas std::set of the column case, before the ShowColumns part.
ColumnSchemas(in, refs, schema) ==
  LET fromRefs == SelectSeq(refs, LAMBDA r : r.schema # <<>>)
      s1 == IF schema # <<>> THEN <<schema>>
            ELSE StringSetInsertAll(<<>>, [i \in 1..Len(fromRefs) |-> fromRefs[i].schema])
  IN IF s1 = <<>> THEN <<in.defaultSchema>> ELSE s1

\* tableEntries.insert of the references visible for the schemas.
RECURSIVE InsertReferenceTables(_, _, _, _)
InsertReferenceTables(set, refs, schema, schemas) ==
  IF refs = <<>> THEN set
  ELSE LET reference == Head(refs)
           name == IF reference.alias = <<>> THEN reference.table ELSE reference.alias
           set1 == IF (schema = <<>> /\ reference.schema = <<>>)
                      \/ StringSetCount(schemas, reference.schema) > 0
                   THEN CompletionSetInsert(set, Entry(AC_TABLE_IMAGE, name))
                   ELSE set
       IN InsertReferenceTables(set1, Tail(refs), schema, schemas)

\* A tables set that takes the references for every rule of the column case.
ColumnTablesAnyRule(rule, refs, table) ==
  IF table # <<>>
  THEN LET aliased == {i \in 1..Len(refs) : same_string(table, refs[i].alias)}
       IN IF aliased # {}
          THEN StringSetInsert(<<table>>,
                               refs[CHOOSE i \in aliased : \A j \in aliased : i <= j].table)
          ELSE <<table>>
  ELSE IF refs # <<>>
       THEN StringSetInsertAll(<<>>, [i \in 1..Len(refs) |-> refs[i].table])
       ELSE <<>>

\* The tables std::set of the ShowColumns part.
ColumnTables(rule, refs, table) ==
  IF table # <<>>
  THEN LET aliased == {i \in 1..Len(refs) : same_string(table, refs[i].alias)}
       IN IF aliased # {}
          THEN StringSetInsert(<<table>>,
                               refs[CHOOSE i \in aliased : \A j \in aliased : i <= j].table)
          ELSE <<table>>
  ELSE IF refs # <<>> /\ rule = "RuleColumnRef"
       THEN StringSetInsertAll(<<>>, [i \in 1..Len(refs) |-> refs[i].table])
       ELSE <<>>

\* The ShowTables part of the column case.
ColumnShowTables(rule, in, refs, ents, q, schemas) ==
  [ents EXCEPT
     !["tableEntries"] =
       IF rule = "RuleColumnRef"
       THEN InsertReferenceTables(insertTables(in.cache, @, schemas), refs, q.schema, schemas)
       ELSE insertTables(in.cache, @, schemas),
     !["viewEntries"] =
       IF rule = "RuleColumnRef" THEN insertViews(in.cache, @, schemas) ELSE @]

\* The ShowColumns part of the column case.
ColumnShowColumns(in, queryType, refs, ents, q, schemas, tables) ==
  [ents EXCEPT
     !["columnEntries"] =
       IF queryType = "QtCreateTrigger" /\ refs # <<>>
          /\ (same_string(q.table, <<"o", "l", "d">>) \/ same_string(q.table, <<"n", "e", "w">>))
       THEN insertColumns(in.cache,
              IF tables # <<>> THEN insertColumns(in.cache, @, schemas, tables) ELSE @,
              schemas, <<refs[1].table>>)
       ELSE IF tables # <<>> THEN insertColumns(in.cache, @, schemas, tables) ELSE @]

\* A column case that looks the columns up in the schemas set as it stands.
ColumnWithSchemasNoDefault(rule, in, queryType, refs, ents, q, schemas) ==
  IF HasFlag(q.flags, ShowColumns)
  THEN ColumnShowColumns(in, queryType, refs,
         IF HasFlag(q.flags, ShowTables)
         THEN ColumnShowTables(rule, in, refs, ents, q, schemas) ELSE ents,
         q, schemas, ColumnTables(rule, refs, q.table))
  ELSE IF HasFlag(q.flags, ShowTables)
       THEN ColumnShowTables(rule, in, refs, ents, q, schemas) ELSE ents

\* The column case once schemaEntries and the schemas set are computed.
ColumnWithSchemas(rule, in, queryType, refs, ents, q, schemas) ==
  IF HasFlag(q.flags, ShowColumns)
  THEN ColumnShowColumns(in, queryType, refs,
         IF HasFlag(q.flags, ShowTables)
         THEN ColumnShowTables(rule, in, refs, ents, q, schemas) ELSE ents,
         q,
         IF q.schema = q.table THEN StringSetInsert(schemas, in.defaultSchema) ELSE schemas,
         ColumnTables(rule, refs, q.table))
  ELSE IF HasFlag(q.flags, ShowTables)
       THEN ColumnShowTables(rule, in, refs, ents, q, schemas) ELSE ents

HandleColumnRef(rule, in, queryType, refs, ents, q) ==
  Handled(ColumnWithSchemas(rule, in, queryType, refs,
            [ents EXCEPT !["schemaEntries"] =
               IF HasFlag(q.flags, ShowSchemas) THEN insertSchemas(in.cache, @) ELSE @],
            q, ColumnSchemas(in, refs, q.schema)),
          q.index, q)

HandleTriggerRef(in, refs, ents, q) ==
  Handled([ents EXCEPT
             !["schemaEntries"] =
               IF HasFlag(q.flags, ShowFirst)
               THEN insertTables(in.cache, @, <<in.defaultSchema>>) ELSE @,
             !["triggerEntries"] =
               IF HasFlag(q.flags, ShowSecond)
               THEN InsertNames(@, AC_TRIGGER_IMAGE,
                      getMatchingTriggerNames(in.cache, in.defaultSchema, q.qualifier))
               ELSE @],
          q.index, q)

HandleViewRef(in, refs, ents, q) ==
  Handled([ents EXCEPT
             !["schemaEntries"] =
               IF HasFlag(q.flags, ShowFirst) THEN insertSchemas(in.cache, @) ELSE @,
             !["viewEntries"] =
               IF HasFlag(q.flags, ShowSecond)
               THEN insertViews(in.cache, @,
                      <<IF q.qualifier = <<>> THEN in.defaultSchema ELSE q.qualifier>>)
               ELSE @],
          q.index, q)

HandleLogfileGroupRef(in, refs, ents, index, q) ==
  Handled([ents EXCEPT !["logfileGroupEntries"] =
             InsertNames(@, AC_LOGFILE_GROUP_IMAGE, getMatchingLogfileGroups(in.cache))], index, q)

HandleTablespaceRef(in, refs, ents, index, q) ==
  Handled([ents EXCEPT !["tablespaceEntries"] =
             InsertNames(@, AC_TABLESPACE_IMAGE, getMatchingTablespaces(in.cache))], index, q)

HandleUserVariable(in, refs, ents, index, q) ==
  Handled([ents EXCEPT !["userVarEntries"] =
             CompletionSetInsert(@, Entry(AC_USER_VAR_IMAGE,
               <<"<", "u", "s", "e", "r", " ", "v", "a", "r", "i", "a", "b", "l", "e", ">">>))],
          index, q)

HandleLabelRef(in, refs, ents, index, q) ==
  Handled([ents EXCEPT !["userVarEntries"] =
             CompletionSetInsert(@, Entry(AC_USER_VAR_IMAGE,
               <<"<", "b", "l", "o", "c", "k", " ", "l", "a", "b", "e", "l", "s", ">">>))],
          index, q)

HandleSystemVariable(in, refs, ents, index, q) ==
  Handled([ents EXCEPT !["systemVarEntries"] =
             InsertNames(@, AC_SYSTEM_VAR_IMAGE, getMatchingVariables(in.cache))], index, q)

HandleCharsetName(in, refs, ents, index, q) ==
  Handled([ents EXCEPT !["charsetEntries"] =
             InsertNames(@, AC_CHARSET_IMAGE, getMatchingCharsets(in.cache))], index, q)

HandleCollationName(in, refs, ents, index, q) ==
  Handled([ents EXCEPT !["collationEntries"] =
             InsertNames(@, AC_COLLATION_IMAGE, getMatchingCollations(in.cache))], index, q)

HandleEventRef(in, refs, ents, q) ==
  Handled([ents EXCEPT
             !["schemaEntries"] =
               IF HasFlag(q.flags, ShowFirst) THEN insertSchemas(in.cache, @) ELSE @,
             !["eventEntries"] =
               IF HasFlag(q.flags, ShowSecond)
               THEN InsertNames(@, AC_EVENT_IMAGE,
                      getMatchingEvents(in.cache,
                        IF q.qualifier = <<>> THEN in.defaultSchema ELSE q.qualifier))
               ELSE @],
          q.index, q)

\* The rules whose case calls one of the two qualifier analyses.
QualifierRules == {"RuleFunctionRef", "RuleFunctionCall", "RuleProcedureRef",
                   "RuleTableRefWithWildcard", "RuleTableRef", "RuleFilterTableRef",
                   "RuleTableRefNoDb", "RuleTableWild", "RuleColumnRef",
                   "RuleColumnInternalRef", "RuleTriggerRef", "RuleViewRef",
                   "RuleEventRef"}

\* switch (candidate.first)
HandleRule(rule, in, queryType, refs, ents, index, q) ==
  CASE rule = "RuleRuntimeFunctionCall" -> HandleRuntimeFunctionCall(in, refs, ents, index, q)
    [] rule \in {"RuleFunctionRef", "RuleFunctionCall"} -> HandleFunctionRef(in, refs, ents, determineQualifier(in.tokens, index))
    [] rule = "RuleEngineRef" -> HandleEngineRef(in, refs, ents, index, q)
    [] rule = "RuleSchemaRef" -> HandleSchemaRef(in, refs, ents, index, q)
    [] rule = "RuleProcedureRef" -> HandleProcedureRef(in, refs, ents, determineQualifier(in.tokens, index))
    [] rule = "RuleTableRefWithWildcard" -> HandleTableRefWithWildcard(in, refs, ents, determineSchemaTableQualifier(in.tokens, index))
    [] rule \in {"RuleTableRef", "RuleFilterTableRef", "RuleTableRefNoDb"} ->
         HandleTableRef(in, refs, ents, determineQualifier(in.tokens, index))
    [] rule \in {"RuleTableWild", "RuleColumnRef", "RuleColumnInternalRef"} ->
         HandleColumnRef(rule, in, queryType, refs, ents,
                         determineSchemaTableQualifier(in.tokens, index))
    [] rule = "RuleTriggerRef" -> HandleTriggerRef(in, refs, ents, determineQualifier(in.tokens, index))
    [] rule = "RuleViewRef" -> HandleViewRef(in, refs, ents, determineQualifier(in.tokens, index))
    [] rule = "RuleLogfileGroupRef" -> HandleLogfileGroupRef(in, refs, ents, index, q)
    [] rule = "RuleTablespaceRef" -> HandleTablespaceRef(in, refs, ents, index, q)
    [] rule = "RuleUserVariable" -> HandleUserVariable(in, refs, ents, index, q)
    [] rule = "RuleLabelRef" -> HandleLabelRef(in, refs, ents, index, q)
    [] rule = "RuleSystemVariable" -> HandleSystemVariable(in, refs, ents, index, q)
    [] rule = "RuleCharsetName" -> HandleCharsetName(in, refs, ents, index, q)
    [] rule = "RuleCollationName" -> HandleCollationName(in, refs, ents, index, q)
    [] rule = "RuleEventRef" -> HandleEventRef(in, refs, ents, determineQualifier(in.tokens, index))
    [] OTHER -> Handled(ents, index, q)

\* The std::copy sequence that fills the result.
EmissionOrder == <<"keywordEntries", "columnEntries", "tableEntries", "viewEntries",
                   "schemaEntries", "functionEntries", "procedureEntries",
                   "triggerEntries", "indexEntries", "eventEntries", "userEntries",
                   "engineEntries", "pluginEntries", "logfileGroupEntries",
                   "tablespaceEntries", "charsetEntries", "collationEntries",
                   "userVarEntries", "runtimeFunctionEntries", "systemVarEntries">>

RECURSIVE CopyGroups(_, _)
CopyGroups(ents, i) ==
  IF i > Len(EmissionOrder) THEN <<>>
  ELSE ents[EmissionOrder[i]] \o CopyGroups(ents, i + 1)

-----------------------------------------------------------------------------
(* The statements, caches and candidates of the checked calls.             *)

TokSelect == Tok("SELECT_SYMBOL", 0, <<"S", "E", "L", "E", "C", "T">>)

\* SELECT ^ FROM t1
SelectFromTokens ==
  <<Tok("SELECT_SYMBOL", 0, <<"S", "E", "L", "E", "C", "T">>),
     TokWs,
     Tok("FROM_SYMBOL", 0, <<"F", "R", "O", "M">>),
     TokWs,
     Tok("IDENTIFIER", 0, <<"t", "1">>),
     TokEof>>

\* SELECT x.^ FROM t1 x
SelectAliasTokens ==
  <<Tok("SELECT_SYMBOL", 0, <<"S", "E", "L", "E", "C", "T">>),
     TokWs,
     Tok("IDENTIFIER", 0, <<"x">>),
     TokDot,
     TokWs,
     Tok("FROM_SYMBOL", 0, <<"F", "R", "O", "M">>),
     TokWs,
     Tok("IDENTIFIER", 0, <<"t", "1">>),
     TokWs,
     Tok("IDENTIFIER", 0, <<"x">>),
     TokEof>>

\* SELECT t1.^ FROM t1
SelectTableTokens ==
  <<Tok("SELECT_SYMBOL", 0, <<"S", "E", "L", "E", "C", "T">>),
     TokWs,
     Tok("IDENTIFIER", 0, <<"t", "1">>),
     TokDot,
     TokWs,
     Tok("FROM_SYMBOL", 0, <<"F", "R", "O", "M">>),
     TokWs,
     Tok("IDENTIFIER", 0, <<"t", "1">>),
     TokEof>>

\* CREATE TRIGGER tr BEFORE INSERT ON t1 FOR EACH ROW SET NEW.^
CreateTriggerTokens ==
  <<Tok("CREATE_SYMBOL", 0, <<"C", "R", "E", "A", "T", "E">>),
     TokWs,
     Tok("TRIGGER_SYMBOL", 0, <<"T", "R", "I", "G", "G", "E", "R">>),
     TokWs,
     Tok("IDENTIFIER", 0, <<"t", "r">>),
     TokWs,
     Tok("BEFORE_SYMBOL", 0, <<"B", "E", "F", "O", "R", "E">>),
     TokWs,
     Tok("INSERT_SYMBOL", 0, <<"I", "N", "S", "E", "R", "T">>),
     TokWs,
     Tok("ON_SYMBOL", 0, <<"O", "N">>),
     TokWs,
     Tok("IDENTIFIER", 0, <<"t", "1">>),
     TokWs,
     Tok("FOR_SYMBOL", 0, <<"F", "O", "R">>),
     TokWs,
     Tok("EACH_SYMBOL", 0, <<"E", "A", "C", "H">>),
     TokWs,
     Tok("ROW_SYMBOL", 0, <<"R", "O", "W">>),
     TokWs,
     Tok("SET_SYMBOL", 0, <<"S", "E", "T">>),
     TokWs,
     Tok("NEW_SYMBOL", 0, <<"N", "E", "W">>),
     TokDot,
     TokEof>>

\* A statement and the index of the token the scanner finds at the caret.
Statements ==
  { [tokens |-> SelectFromTokens, caret |-> 2],
    [tokens |-> SelectAliasTokens, caret |-> 4],
    [tokens |-> SelectTableTokens, caret |-> 4],
    [tokens |-> CreateTriggerTokens, caret |-> Len(CreateTriggerTokens) - 1] }

DefaultSchema == <<"s">>

\* Schema s with tables t1(a, b), t2(c), a view, routines, a trigger on t1.
CacheRich ==
  [ schemas |-> << <<"s">>, <<"x">> >>,
    tables |-> (<<"s">> :> << <<"t", "1">>, <<"t", "2">> >>) @@ (<<"x">> :> << <<"x">> >>),
    views |-> (<<"s">> :> << <<"v", "1">> >>),
    columns |-> (<< <<"s">>, <<"t", "1">> >> :> << <<"a">>, <<"b">> >>)
                @@ (<< <<"s">>, <<"t", "2">> >> :> << <<"c">> >>)
                @@ (<< <<"x">>, <<"x">> >> :> << <<"d">> >>),
    functions |-> (<<"s">> :> << <<"b">>, <<"f">> >>),
    procedures |-> (<<"s">> :> << <<"a">>, <<"F">> >>),
    udfs |-> << <<"u">> >>,
    triggers |-> (<< <<"s">>, <<>> >> :> << <<"t", "r">> >>)
                 @@ (<< <<"s">>, <<"t", "1">> >> :> << <<"t", "r">> >>),
    events |-> (<<"s">> :> << <<"e", "v">> >>),
    engines |-> << <<"I", "n", "n", "o", "D", "B">> >>,
    logfileGroups |-> << <<"l", "g">> >>,
    tablespaces |-> << <<"t", "s">> >>,
    variables |-> << <<"s", "q", "l", "_", "m", "o", "d", "e">> >>,
    charsets |-> << <<"u", "t", "f", "8">> >>,
    collations |-> << <<"u", "t", "f", "8", "_", "b", "i", "n">> >> ]

\* Names that differ in letter case only, and a schema named like a table.
CacheCase ==
  [ schemas |-> << <<"s">>, <<"T", "1">> >>,
    tables |-> (<<"s">> :> << <<"T", "1">>, <<"t", "1">> >>),
    views |-> (<<"s">> :> << <<"V">>, <<"t", "0">> >>),
    columns |-> (<< <<"s">>, <<"t", "1">> >> :> << <<"a">>, <<"A">> >>),
    functions |-> (<<"s">> :> << <<"f">> >>),
    procedures |-> (<<"s">> :> << <<"g">> >>),
    udfs |-> << <<"N", "O", "W">> >>,
    triggers |-> (<< <<"s">>, <<>> >> :> << <<"t", "r">> >>),
    events |-> (<<"s">> :> <<>>),
    engines |-> <<>>,
    logfileGroups |-> <<>>,
    tablespaces |-> <<>>,
    variables |-> <<>>,
    charsets |-> <<>>,
    collations |-> <<>> ]

Caches == {CacheRich, CacheCase}

\* What the candidate engine reports as tokens, and the caller's keyword case.
TokenAlternatives ==
  { [tokens |-> << >>, uppercaseKeywords |-> FALSE],
    [tokens |-> ("NOW_SYMBOL" :> <<>>) @@ ("NOT2_SYMBOL" :> <<>>), uppercaseKeywords |-> FALSE],
    [tokens |-> ("NOT_SYMBOL" :> <<"OPEN_PAR_SYMBOL">>) @@ ("NOT2_SYMBOL" :> <<>>)
                @@ ("GROUP_SYMBOL" :> <<"BY_SYMBOL">>) @@ ("NOW_SYMBOL" :> <<"OPEN_PAR_SYMBOL">>),
     uppercaseKeywords |-> TRUE],
    [tokens |-> ("NOT_SYMBOL" :> <<>>) @@ ("CHAR_SYMBOL" :> <<>>), uppercaseKeywords |-> TRUE] }

\* The rules the candidate engine reports in the checked calls.
InputRules == {"RuleRuntimeFunctionCall", "RuleFunctionRef", "RuleEngineRef", "RuleSchemaRef",
               "RuleProcedureRef", "RuleTableRefWithWildcard", "RuleTableRef",
               "RuleTableWild", "RuleColumnRef", "RuleTriggerRef", "RuleViewRef",
               "RuleUserVariable", "RuleSystemVariable", "RuleEventRef", "RuleIdentifier"}

RuleSets == {rs \in SUBSET InputRules : Cardinality(rs) <= MaxRules}

FunctionNames == <<"a", "b", "s", " ", "n", "o", "w">>

Call(statement, cache, alternative, rules, engineFails, lexerNull) ==
  [ tokens |-> statement.tokens,
    caret |-> statement.caret,
    defaultSchema |-> DefaultSchema,
    uppercaseKeywords |-> alternative.uppercaseKeywords,
    functionNames |-> FunctionNames,
    cache |-> cache,
    lexerNull |-> lexerNull,
    engineFails |-> engineFails,
    candidates |-> [tokens |-> alternative.tokens, rules |-> rules] ]

\* The rule sets of the calls that vary the tokens or the failures.
SingleRuleSets == {rs \in RuleSets : Cardinality(rs) <= 1}

NoTokens == [tokens |-> << >>, uppercaseKeywords |-> FALSE]

\* The checked calls: every rule set on every cache; every token map with at
\* most one rule; every failure with at most one rule.
Calls ==
  { Call(st, c, NoTokens, rs, FALSE, FALSE) :
      st \in Statements, c \in Caches, rs \in RuleSets }
  \cup
  { Call(st, CacheRich, alt, rs, FALSE, FALSE) :
      st \in Statements, alt \in TokenAlternatives, rs \in SingleRuleSets }
  \cup
  { Call(st, CacheRich, NoTokens, rs, ef, ln) :
      st \in Statements, rs \in SingleRuleSets, ef \in BOOLEAN, ln \in BOOLEAN }

-----------------------------------------------------------------------------
(* getCodeCompletionList as a state machine.                               *)

\* MySQLLexer::determineQueryType, for the statements above.
determineQueryType(toks) ==
  LET first == IF tokenChannel(toks, 0) = 0 THEN 0 ELSE next(toks, 0)
  IN IF is(toks, first, "CREATE_SYMBOL") /\ is(toks, next(toks, first), "TRIGGER_SYMBOL")
     THEN "QtCreateTrigger"
     ELSE "QtUnknown"

\* MySQLQueryType queryType = QtUnknown; if (lexer != nullptr) ...
queryTypeOf(in) == IF in.lexerNull THEN "QtUnknown" ELSE determineQueryType(in.tokens)

\* Scanner::push
ScannerPush(index, stack) == Append(stack, index)

\* Scanner::pop : the index and stack after the call.
ScannerPop(index, stack) ==
  IF stack = <<>> THEN [index |-> index, stack |-> stack]
  ELSE [index |-> stack[Len(stack)], stack |-> SubSeq(stack, 1, Len(stack) - 1)]

Init ==
  /\ input \in Calls
  /\ pc = "start"
  /\ completionCandidates = [tokens |-> << >>, rules |-> {}]
  /\ referencesStack = <<>>
  /\ references = <<>>
  /\ tokenIndex = 0
  /\ tokenStack = <<>>
  /\ entries = EmptySets
  /\ rulesLeft = {}
  /\ qres = NoAnalysis
  /\ result = <<>>

\* context.collectCandidates(parser, ...) returning normally.
CollectCandidates ==
  /\ pc = "start"
  /\ ~input.engineFails
  /\ LET stack == Append(referencesStack, <<>>)
         rules == input.candidates.rules
     IN /\ referencesStack' = collectRemainingTableReferences(stack)
        /\ completionCandidates' = [tokens |-> RenameNot2(input.candidates.tokens),
                                    rules |-> rules]
        /\ references' = IF "RuleColumnRef" \in rules
                         THEN takeReferencesSnapshot(references,
                                                     collectRemainingTableReferences(stack))
                         ELSE references
  /\ pc' = "collected"
  /\ UNCHANGED <<input, tokenIndex, tokenStack, entries, rulesLeft, qres, result>>

\* The candidate engine throws: nothing in the call catches it.
CollectCandidatesThrows ==
  /\ pc = "start"
  /\ input.engineFails
  /\ referencesStack' = Append(referencesStack, <<>>)
  /\ pc' = "exception"
  /\ UNCHANGED <<input, completionCandidates, references, tokenIndex, tokenStack,
                 entries, rulesLeft, qres, result>>

\* scanner.advanceToPosition(caretLine + 1, caretOffset); scanner.push();
AdvanceToCaret ==
  /\ pc = "collected"
  /\ tokenIndex' = input.caret
  /\ tokenStack' = ScannerPush(input.caret, tokenStack)
  /\ pc' = "tokens"
  /\ UNCHANGED <<input, completionCandidates, referencesStack, references,
                 entries, rulesLeft, qres, result>>

\* The loop over the token candidates.
TokenCandidates ==
  /\ pc = "tokens"
  /\ entries' = TokenCandidatesFrom(entries, completionCandidates.tokens,
                                    input.uppercaseKeywords, 1)
  /\ rulesLeft' = completionCandidates.rules
  /\ pc' = "rules"
  /\ UNCHANGED <<input, completionCandidates, referencesStack, references,
                 tokenIndex, tokenStack, qres, result>>

\* A rule loop iteration that starts without scanner.pop(); scanner.push();
RestoreScannerSkipped ==
  /\ pc = "rules"
  /\ rulesLeft # {}
  /\ pc' = "handler"
  /\ UNCHANGED <<input, completionCandidates, referencesStack, references,
                 tokenIndex, tokenStack, entries, rulesLeft, qres, result>>

\* The start of a rule loop iteration: scanner.pop(); scanner.push();
RestoreScanner ==
  /\ pc = "rules"
  /\ rulesLeft # {}
  /\ LET popped == ScannerPop(tokenIndex, tokenStack)
     IN /\ tokenIndex' = popped.index
        /\ tokenStack' = ScannerPush(popped.index, popped.stack)
  /\ pc' = "handler"
  /\ UNCHANGED <<input, completionCandidates, referencesStack, references,
                 entries, rulesLeft, qres, result>>

\* The switch of a rule loop iteration.  With a null lexer the analyses
\* call a member function on a null pointer; the call either goes on as
\* usual or the process stops (LexerFault).
HandleCandidate ==
  /\ pc = "handler"
  /\ \E rule \in rulesLeft :
       /\ \E h \in {HandleRule(rule, input, queryTypeOf(input), references,
                                entries, tokenIndex, qres)} :
            /\ entries' = h.entries
            /\ tokenIndex' = h.index
            /\ qres' = h.qres
       /\ rulesLeft' = rulesLeft \ {rule}
  /\ pc' = "rules"
  /\ UNCHANGED <<input, completionCandidates, referencesStack, references,
                 tokenStack, result>>

LexerFault ==
  /\ pc = "handler"
  /\ input.lexerNull
  /\ \E rule \in rulesLeft : rule \in QualifierRules
  /\ pc' = "crashed"
  /\ UNCHANGED <<input, completionCandidates, referencesStack, references,
                 tokenIndex, tokenStack, entries, rulesLeft, qres, result>>

\* scanner.pop(), the copies into result, and the return.
ReturnResult ==
  /\ pc = "rules"
  /\ rulesLeft = {}
  /\ LET popped == ScannerPop(tokenIndex, tokenStack)
     IN /\ tokenIndex' = popped.index
        /\ tokenStack' = popped.stack
  /\ result' = CopyGroups(entries, 1)
  /\ pc' = "done"
  /\ UNCHANGED <<input, completionCandidates, referencesStack, references,
                 entries, rulesLeft, qres>>

Next ==
  \/ CollectCandidates
  \/ CollectCandidatesThrows
  \/ AdvanceToCaret
  \/ TokenCandidates
  \/ RestoreScanner
  \/ HandleCandidate
  \/ LexerFault
  \/ ReturnResult

Spec == Init /\ [][Next]_vars

-----------------------------------------------------------------------------
(* The qualifier analyses on their own: every token stream of at most      *)
(* MaxStreamLen tokens over identifiers, dots, whitespace, a comment and a *)
(* keyword, every caret token, and one analysis from there.                *)

CacheEmpty ==
  [ schemas |-> <<>>, tables |-> << >>, views |-> << >>, columns |-> << >>,
    functions |-> << >>, procedures |-> << >>, udfs |-> <<>>, triggers |-> << >>,
    events |-> << >>, engines |-> <<>>, logfileGroups |-> <<>>, tablespaces |-> <<>>,
    variables |-> <<>>, charsets |-> <<>>, collations |-> <<>> ]

StreamTokens == {TokA, TokB, TokDot, TokWs, TokComment, TokSelect}

\* Token pairs no lexer produces next to each other: two whitespace tokens
\* are one whitespace token, two unquoted words are one identifier, and two
\* quoted identifiers are one identifier with a doubled quote in it.  Of the
\* hidden runs with a comment the streams have those where it follows
\* whitespace.
Words == {TokA, TokSelect}

Lexable(s) ==
  \A i \in 1..(Len(s) - 1) :
    /\ ~(s[i] = TokWs /\ s[i + 1] = TokWs)
    /\ ~(s[i] \in Words /\ s[i + 1] \in Words)
    /\ ~(s[i] = TokB /\ s[i + 1] = TokB)
    /\ s[i + 1] = TokComment => s[i] = TokWs

Streams == {s \in UNION {[1..n -> StreamTokens] : n \in 0..MaxStreamLen} : Lexable(s)}

AnalysisCalls ==
  { Call([tokens |-> Append(s, TokEof), caret |-> c], CacheEmpty,
         NoTokens, {}, FALSE, FALSE) :
      s \in Streams, c \in 0..MaxStreamLen }

InitAnalysis ==
  /\ input \in {call \in AnalysisCalls : call.caret < Len(call.tokens)}
  /\ pc = "analysis"
  /\ completionCandidates = [tokens |-> << >>, rules |-> {}]
  /\ referencesStack = <<>>
  /\ references = <<>>
  /\ tokenIndex = input.caret
  /\ tokenStack = <<input.caret>>
  /\ entries = EmptySets
  /\ rulesLeft = {}
  /\ qres = NoAnalysis
  /\ result = <<>>

RunDetermineQualifier ==
  /\ pc = "analysis"
  /\ qres' = determineQualifier(input.tokens, tokenIndex)
  /\ tokenIndex' = qres'.index
  /\ pc' = "determineQualifier"
  /\ UNCHANGED <<input, completionCandidates, referencesStack, references,
                 tokenStack, entries, rulesLeft, result>>

RunDetermineSchemaTableQualifier ==
  /\ pc = "analysis"
  /\ qres' = determineSchemaTableQualifier(input.tokens, tokenIndex)
  /\ tokenIndex' = qres'.index
  /\ pc' = "determineSchemaTableQualifier"
  /\ UNCHANGED <<input, completionCandidates, referencesStack, references,
                 tokenStack, entries, rulesLeft, result>>

NextAnalysis == RunDetermineQualifier \/ RunDetermineSchemaTableQualifier

SpecAnalysis == InitAnalysis /\ [][NextAnalysis]_vars

-----------------------------------------------------------------------------
(* The dotted identifier left of the caret, read off the token stream.     *)

DefaultChannel(toks) == {i \in 0..(Len(toks) - 1) : tokenChannel(toks, i) = 0}

PartKind(toks, i) ==
  IF isIdentifier(tokenType(toks, i)) THEN "id"
  ELSE IF is(toks, i, "DOT_SYMBOL") THEN "." ELSE "other"

\* The first default channel token at or after the caret token.
CaretToken(toks, caret) ==
  CHOOSE i \in DefaultChannel(toks) :
    i >= caret /\ \A j \in DefaultChannel(toks) : j >= caret => i <= j

\* The last token left of the caret: the caret token when it is an
\* identifier (the caret is in it or at its end), else the default channel
\* token before it; -1 when there is none.
LastLeft(toks, caret) ==
  LET e == CaretToken(toks, caret)
      before == {j \in DefaultChannel(toks) : j < e}
  IN IF PartKind(toks, e) = "id" THEN e
     ELSE IF before = {} THEN -1
     ELSE CHOOSE j \in before : \A k \in before : k <= j

\* The default channel tokens of the longest run of identifiers and dots
\* that ends at LastLeft, in stream order.
ConsumedTokens(toks, caret) ==
  LET last == LastLeft(toks, caret)
      run == {i \in DefaultChannel(toks) :
                i <= last /\ \A j \in DefaultChannel(toks) :
                               (i <= j /\ j <= last) => PartKind(toks, j) # "other"}
      Ordered[n \in 0..Cardinality(run)] ==
        IF n = 0 THEN <<>>
        ELSE Append(Ordered[n - 1],
                    CHOOSE i \in run : Cardinality({j \in run : j < i}) = n - 1)
  IN Ordered[Cardinality(run)]

Consumed(toks, caret) ==
  LET ct == ConsumedTokens(toks, caret)
  IN [n \in 1..Len(ct) |-> PartKind(toks, ct[n])]

\* The kinds of the whole run of identifiers and dots the caret is in or
\* directly behind, parts right of the caret included.
IdentifierAtCaret(toks, caret) ==
  LET e == CaretToken(toks, caret)
      anchor == IF PartKind(toks, e) # "other" THEN e ELSE LastLeft(toks, caret)
      run == IF anchor = -1 THEN {}
             ELSE {i \in DefaultChannel(toks) :
                     \A j \in DefaultChannel(toks) :
                        ((i <= j /\ j <= anchor) \/ (anchor <= j /\ j <= i))
                           => PartKind(toks, j) # "other"}
      Ordered[n \in 0..Cardinality(run)] ==
        IF n = 0 THEN <<>>
        ELSE Append(Ordered[n - 1],
                    PartKind(toks, CHOOSE i \in run : Cardinality({j \in run : j < i}) = n - 1))
  IN Ordered[Cardinality(run)]

\* An identifier of up to three parts, complete or cut off behind a dot.
DottedIdentifiers ==
  {<<>>, <<"id">>, <<"id", ".">>, <<"id", ".", "id">>, <<"id", ".", "id", ".">>,
   <<"id", ".", "id", ".", "id">>}

ConsumedId(toks, caret, n) == unquote(tokenText(toks, ConsumedTokens(toks, caret)[n]))

\* C10: determineSchemaTableQualifier follows the emission table: nothing or
\* one identifier left of the caret gives ShowSchemas|ShowTables|ShowColumns
\* with empty schema and table; "id ." and "id . id" give
\* ShowTables|ShowColumns with schema = table = the first identifier;
\* "id . id ." and "id . id . id" give ShowColumns with the first identifier
\* as schema and the second as table.
C10_EmissionTable ==
  (/\ pc = "determineSchemaTableQualifier"
   /\ IdentifierAtCaret(input.tokens, input.caret) \in DottedIdentifiers) =>
    LET c == Consumed(input.tokens, input.caret)
    IN /\ c \in {<<>>, <<"id">>} =>
            /\ qres.flags = ShowSchemas + ShowTables + ShowColumns
            /\ qres.schema = <<>> /\ qres.table = <<>>
       /\ c \in {<<"id", ".">>, <<"id", ".", "id">>} =>
            /\ qres.flags = ShowTables + ShowColumns
            /\ qres.schema = ConsumedId(input.tokens, input.caret, 1)
            /\ qres.table = ConsumedId(input.tokens, input.caret, 1)
       /\ c \in {<<"id", ".", "id", ".">>, <<"id", ".", "id", ".", "id">>} =>
            /\ qres.flags = ShowColumns
            /\ qres.schema = ConsumedId(input.tokens, input.caret, 1)
            /\ qres.table = ConsumedId(input.tokens, input.caret, 3)

\* A three part identifier with the caret behind the second dot, analysed.
C10_Witness ==
  /\ pc = "determineSchemaTableQualifier"
  /\ IdentifierAtCaret(input.tokens, input.caret) = <<"id", ".", "id", ".">>
  /\ Consumed(input.tokens, input.caret) = <<"id", ".", "id", ".">>
  /\ qres.flags = ShowColumns
  /\ qres.schema = <<"a">>
  /\ qres.table = <<"b">>

-----------------------------------------------------------------------------
(* Properties of the returned list.                                        *)

HasEntry(list, kind, text) ==
  \E i \in 1..Len(list) : list[i].kind = kind /\ same_string(list[i].text, text)

HasAll(list, kind, names) == \A n \in 1..Len(names) : HasEntry(list, kind, names[n])

\* C1: the returned list holds no two entries with the same kind and the
\* same text under case-insensitive comparison.
C1_NoDuplicates ==
  pc = "done" =>
    \A i, j \in 1..Len(result) :
      (i # j /\ result[i].kind = result[j].kind) => ~same_string(result[i].text, result[j].text)

\* C2: in the returned list the entries of one kind are sorted by text,
\* case-insensitively.
C2_SortedWithinKind ==
  pc = "done" =>
    \A i, j \in 1..Len(result) :
      (i < j /\ result[i].kind = result[j].kind)
         => ~string_compare_less(result[j].text, result[i].text)

\* The place of a kind in the emission order keywords, columns, tables,
\* views, schemas, functions and procedures, triggers, events, engines,
\* logfile groups, tablespaces, charsets, collations, user variables,
\* runtime functions, system variables.
KindOrder == <<AC_KEYWORD_IMAGE, AC_COLUMN_IMAGE, AC_TABLE_IMAGE, AC_VIEW_IMAGE,
               AC_SCHEMA_IMAGE, AC_ROUTINE_IMAGE, AC_TRIGGER_IMAGE, AC_EVENT_IMAGE,
               AC_ENGINE_IMAGE, AC_LOGFILE_GROUP_IMAGE, AC_TABLESPACE_IMAGE,
               AC_CHARSET_IMAGE, AC_COLLATION_IMAGE, AC_USER_VAR_IMAGE,
               AC_FUNCTION_IMAGE, AC_SYSTEM_VAR_IMAGE>>

KindRank(kind) == CHOOSE n \in 1..Len(KindOrder) : KindOrder[n] = kind

\* C3: the returned list is grouped by kind in the fixed emission order: no
\* entry of a later group precedes an entry of an earlier group.
C3_GroupOrder ==
  pc = "done" =>
    \A i, j \in 1..Len(result) :
      i < j => KindRank(result[i].kind) <= KindRank(result[j].kind)

\* The text of the first identifier behind the first token of a type.
IdentifierAfter(toks, type) ==
  LET at == CHOOSE i \in DefaultChannel(toks) :
              is(toks, i, type) /\ \A j \in DefaultChannel(toks) : is(toks, j, type) => i <= j
  IN unquote(tokenText(toks, next(toks, at)))

\* C4: with a ColumnRef candidate the table references of a FROM clause
\* behind the caret are used for column completion: for SELECT ^ FROM t1 and
\* for SELECT x.^ FROM t1 x the result holds the columns of t1.
C4_ColumnsOfFromClause ==
  (/\ pc = "done"
   /\ "RuleColumnRef" \in completionCandidates.rules
   /\ input.tokens \in {SelectFromTokens, SelectAliasTokens}) =>
    HasAll(result, AC_COLUMN_IMAGE,
           getMatchingColumnNames(input.cache, input.defaultSchema,
                                  IdentifierAfter(input.tokens, "FROM_SYMBOL")))

\* C5: for a CREATE TRIGGER statement on table T with the caret behind the
\* qualifier NEW. or OLD. the result holds the columns of T.
C5_TriggerColumns ==
  (/\ pc = "done"
   /\ "RuleColumnRef" \in completionCandidates.rules
   /\ ~input.lexerNull
   /\ determineQueryType(input.tokens) = "QtCreateTrigger"
   /\ same_string(determineSchemaTableQualifier(input.tokens, input.caret).table,
                  <<"n", "e", "w">>)) =>
    HasAll(result, AC_COLUMN_IMAGE,
           getMatchingColumnNames(input.cache, input.defaultSchema,
                                  IdentifierAfter(input.tokens, "ON_SYMBOL")))

\* C6: a keyword token candidate with entries in the synonyms table gives,
\* besides its own KEYWORD entry, one KEYWORD entry per synonym.
C6_SynonymEntries ==
  pc = "done" =>
    \A t \in DOMAIN completionCandidates.tokens :
      (t \in DOMAIN synonyms /\ completionCandidates.tokens[t] = <<>>) =>
        /\ HasEntry(result, AC_KEYWORD_IMAGE, StripDisplayName(getDisplayName[t]))
        /\ HasAll(result, AC_KEYWORD_IMAGE, synonyms[t])

\* C7: after collectCandidates the token candidate map never holds NOT2;
\* when the engine reported NOT2 the map holds NOT; the result never holds
\* the keyword not2.
C7_Not2Renamed ==
  /\ pc \notin {"start", "exception"} =>
       /\ "NOT2_SYMBOL" \notin DOMAIN completionCandidates.tokens
       /\ "NOT2_SYMBOL" \in DOMAIN input.candidates.tokens
            => "NOT_SYMBOL" \in DOMAIN completionCandidates.tokens
  /\ pc = "done" => ~HasEntry(result, AC_KEYWORD_IMAGE, <<"n", "o", "t", "2">>)

\* The engine reported NOT2 without NOT and the call returned keyword NOT.
C7_Witness ==
  /\ pc = "done"
  /\ "NOT2_SYMBOL" \in DOMAIN input.candidates.tokens
  /\ "NOT_SYMBOL" \notin DOMAIN input.candidates.tokens
  /\ HasEntry(result, AC_KEYWORD_IMAGE, <<"n", "o", "t">>)

\* C8: no failure escapes the entry point: neither a failure of the
\* candidate engine nor a null lexer ends the call without a returned list,
\* and a call whose candidate engine failed returns the empty list.
C8_FailSoft ==
  /\ pc \notin {"exception", "crashed"}
  /\ (pc = "done" /\ input.engineFails) => result = <<>>

\* C9: the scanner's stack holds exactly the caret position while a rule
\* candidate handler runs, every handler starts on the caret token, and the
\* stack is empty when the function returns.
C9_ScannerStackBalanced ==
  /\ pc \in {"tokens", "rules", "handler"} => tokenStack = <<input.caret>>
  /\ pc = "handler" => tokenIndex = input.caret
  /\ pc = "done" => tokenStack = <<>>

\* A handler is about to run after an earlier handler's analysis left the
\* scanner on another token than the caret token.
C9_Witness ==
  /\ pc = "handler"
  /\ rulesLeft # completionCandidates.rules
  /\ qres # NoAnalysis
  /\ qres.index # input.caret
  /\ tokenIndex = input.caret

-----------------------------------------------------------------------------
(* Properties of the qualifier analyses.                                   *)

\* The indices of the default channel tokens of the run of identifiers and
\* dots the caret is in or directly behind, in stream order.
IdentifierTokens(toks, caret) ==
  LET e == CaretToken(toks, caret)
      anchor == IF PartKind(toks, e) # "other" THEN e ELSE LastLeft(toks, caret)
      run == IF anchor = -1 THEN {}
             ELSE {i \in DefaultChannel(toks) :
                     \A j \in DefaultChannel(toks) :
                        ((i <= j /\ j <= anchor) \/ (anchor <= j /\ j <= i))
                           => PartKind(toks, j) # "other"}
      Ordered[n \in 0..Cardinality(run)] ==
        IF n = 0 THEN <<>>
        ELSE Append(Ordered[n - 1],
                    CHOOSE i \in run : Cardinality({j \in run : j < i}) = n - 1)
  IN Ordered[Cardinality(run)]

\* The caret is in a two part identifier "id . id", not left of its first
\* token and not right of its last token.
InTwoPartIdentifier(toks, caret) ==
  /\ IdentifierAtCaret(toks, caret) = <<"id", ".", "id">>
  /\ IdentifierTokens(toks, caret)[1] <= caret
  /\ caret <= IdentifierTokens(toks, caret)[3]

\* C11: in a two part identifier a.b, hidden tokens between the parts or
\* not, determineQualifier returns an empty qualifier with
\* ShowFirst|ShowSecond while the caret is in or behind the first
\* identifier, before the dot or on the dot, and the unquoted first
\* identifier with ShowSecond alone while the caret is behind the dot or in
\* the second identifier.
C11_TwoPartPositions ==
  (pc = "determineQualifier" /\ InTwoPartIdentifier(input.tokens, input.caret)) =>
    LET parts == IdentifierTokens(input.tokens, input.caret)
    IN IF input.caret <= parts[2]
       THEN qres.flags = ShowFirst + ShowSecond /\ qres.qualifier = <<>>
       ELSE /\ qres.flags = ShowSecond
            /\ qres.qualifier = unquote(tokenText(input.tokens, parts[1]))

\* A two part identifier with a hidden token behind its dot and the caret
\* on that hidden token, analysed: the quoted first identifier comes back
\* unquoted.
C11_Witness ==
  /\ pc = "determineQualifier"
  /\ InTwoPartIdentifier(input.tokens, input.caret)
  /\ tokenChannel(input.tokens, input.caret) # 0
  /\ input.caret > IdentifierTokens(input.tokens, input.caret)[2]
  /\ tokenType(input.tokens, IdentifierTokens(input.tokens, input.caret)[1]) = "BACK_TICK_QUOTED_ID"
  /\ qres.flags = ShowSecond
  /\ qres.qualifier = <<"b">>

\* A cache whose schemas and tables carry the identifiers of the streams.
CacheStream ==
  [ CacheEmpty EXCEPT
      !.schemas = << <<"a">>, <<"b">> >>,
      !.tables = (<<"a">> :> << <<"b">> >>) @@ (<<"b">> :> << <<"a">> >>),
      !.views = (<<"a">> :> << <<"v">> >>),
      !.columns = (<< <<"a">>, <<"b">> >> :> << <<"c">> >>)
                  @@ (<< <<"b">>, <<"a">> >> :> << <<"d">> >>)
                  @@ (<< <<"b">>, <<"b">> >> :> << <<"e">> >>),
      !.functions = (<<"a">> :> << <<"f">> >>) @@ (<<"b">> :> << <<"g">> >>),
      !.procedures = (<<"a">> :> << <<"p">> >>),
      !.triggers = (<< <<"b">>, <<"a">> >> :> << <<"t">> >>),
      !.events = (<<"a">> :> << <<"e">> >>) ]

\* The completion sets of one rule candidate handled from the given start
\* token, on a cache with objects in it.
EntriesFrom(rule, start) ==
  HandleRule(rule, [input EXCEPT !.cache = CacheStream, !.defaultSchema = <<"b">>],
             queryTypeOf(input), references, EmptySets, start, NoAnalysis).entries

\* The analysis a rule candidate's case calls.
AnalysisOf(rule) ==
  IF rule \in {"RuleTableRefWithWildcard", "RuleTableWild", "RuleColumnRef",
               "RuleColumnInternalRef"}
  THEN "determineSchemaTableQualifier"
  ELSE IF rule \in QualifierRules THEN "determineQualifier" ELSE "none"

\* C12: an analysis that starts on a hidden token gives the same result as
\* one that starts on the nearest following default channel token:
\* determineQualifier the same flags and qualifier,
\* determineSchemaTableQualifier the same flags, schema and table, and every
\* rule candidate the same completion sets.
C12_HiddenCaretEquivalence ==
  tokenChannel(input.tokens, input.caret) # 0 =>
    LET following == CaretToken(input.tokens, input.caret)
    IN /\ pc = "determineQualifier" =>
            /\ qres.flags = determineQualifier(input.tokens, following).flags
            /\ qres.qualifier = determineQualifier(input.tokens, following).qualifier
       /\ pc = "determineSchemaTableQualifier" =>
            /\ qres.flags = determineSchemaTableQualifier(input.tokens, following).flags
            /\ qres.schema = determineSchemaTableQualifier(input.tokens, following).schema
            /\ qres.table = determineSchemaTableQualifier(input.tokens, following).table
       /\ \A rule \in InputRules :
            (pc = AnalysisOf(rule)) =>
              EntriesFrom(rule, input.caret) = EntriesFrom(rule, following)

\* The caret on a hidden token that another hidden token follows, with
\* "id ." left of it, analysed with that identifier as the result.
C12_Witness ==
  /\ pc = "determineSchemaTableQualifier"
  /\ tokenChannel(input.tokens, input.caret) # 0
  /\ CaretToken(input.tokens, input.caret) > input.caret + 1
  /\ qres.flags = ShowTables + ShowColumns
  /\ qres.schema # <<>>

-----------------------------------------------------------------------------
(* The column case on a filled reference stack: the stack as the parse     *)
(* listeners leave it, any number of snapshots of it, and one rule         *)
(* candidate of the column case handled with the flat list.                *)

ColumnRules == {"RuleTableWild", "RuleColumnRef", "RuleColumnInternalRef"}

\* t1, t1 AS x, t2 AS X, x.x
ReferenceChoices ==
  { TableReference(<<>>, <<"t", "1">>, <<>>),
    TableReference(<<>>, <<"t", "1">>, <<"x">>),
    TableReference(<<>>, <<"t", "2">>, <<"X">>),
    TableReference(<<"x">>, <<"x">>, <<>>) }

ReferenceLists == UNION {[1..n -> ReferenceChoices] : n \in 0..MaxReferences}

\* The references of a list on the root level and on one nested level.
ReferenceStacks ==
  UNION { { <<SubSeq(r, 1, k), SubSeq(r, k + 1, Len(r))>> : k \in 0..Len(r) } :
          r \in ReferenceLists }

ColumnCalls ==
  { Call(st, c, NoTokens, {rule}, FALSE, FALSE) :
      st \in Statements, c \in Caches, rule \in ColumnRules }

InitReferences ==
  /\ input \in ColumnCalls
  /\ pc = "references"
  /\ completionCandidates = input.candidates
  /\ referencesStack \in ReferenceStacks
  /\ references = <<>>
  /\ tokenIndex = input.caret
  /\ tokenStack = <<input.caret>>
  /\ entries = EmptySets
  /\ rulesLeft = input.candidates.rules
  /\ qres = NoAnalysis
  /\ result = <<>>

\* takeReferencesSnapshot(), at most twice.
TakeReferencesSnapshot ==
  /\ pc = "references"
  /\ Len(references) <= Len(FlattenStack(referencesStack))
  /\ references' = takeReferencesSnapshot(references, referencesStack)
  /\ UNCHANGED <<input, pc, completionCandidates, referencesStack, tokenIndex,
                 tokenStack, entries, rulesLeft, qres, result>>

\* The column case of the switch and the copies into the result.
RunColumnRef ==
  /\ pc = "references"
  /\ \E rule \in rulesLeft :
       /\ \E h \in {HandleRule(rule, input, queryTypeOf(input), references,
                                entries, tokenIndex, qres)} :
            /\ entries' = h.entries
            /\ tokenIndex' = h.index
            /\ qres' = h.qres
            /\ result' = CopyGroups(h.entries, 1)
       /\ rulesLeft' = rulesLeft \ {rule}
  /\ pc' = "column"
  /\ UNCHANGED <<input, completionCandidates, referencesStack, references, tokenStack>>

NextReferences == TakeReferencesSnapshot \/ RunColumnRef

SpecReferences == InitReferences /\ [][NextReferences]_vars

\* The names of the columns of the tables the references name, in any schema
\* of the cache.
ReferencedColumns(cache, refs) ==
  UNION { { cache.columns[key][n] : n \in 1..Len(cache.columns[key]) } :
          key \in {k \in DOMAIN cache.columns :
                     \E i \in 1..Len(refs) : k[2] = refs[i].table} }

ColumnTexts(list) == {list[i].text : i \in {j \in 1..Len(list) : list[j].kind = AC_COLUMN_IMAGE}}

HasName(names, name) == \E n \in 1..Len(names) : names[n] = name

\* C14: for a ColumnRef candidate with exactly "id ." left of the caret the
\* result holds every column of the table of that name in the default
\* schema, and a TABLE entry of that name only when the cache has a schema
\* of that name with a table of that name in it.
C14_AmbiguousSingleDot ==
  (/\ pc = "done"
   /\ "RuleColumnRef" \in completionCandidates.rules
   /\ Consumed(input.tokens, input.caret) = <<"id", ".">>) =>
    LET name == ConsumedId(input.tokens, input.caret, 1)
    IN /\ HasAll(result, AC_COLUMN_IMAGE,
                 getMatchingColumnNames(input.cache, input.defaultSchema, name))
       /\ HasEntry(result, AC_TABLE_IMAGE, name) =>
            HasName(getMatchingTableNames(input.cache, name), name)

\* SELECT t1.^ FROM t1 with t1(a, b) in the default schema, completed:
\* COLUMN a and COLUMN b and no TABLE t1.
C14_Witness ==
  /\ pc = "done"
  /\ input.tokens = SelectTableTokens
  /\ input.cache = CacheRich
  /\ completionCandidates.rules = {"RuleColumnRef"}
  /\ ColumnTexts(result) = {<<"a">>, <<"b">>}
  /\ ~HasEntry(result, AC_TABLE_IMAGE, <<"t", "1">>)

-----------------------------------------------------------------------------
(* Properties of the static tables and of CompletionSet.                   *)

\* The spellings the table, once built, holds for a keyword token.
SynonymsOf(t) == IF t \in DOMAIN synonyms THEN synonyms[t] ELSE << >>

\* C15: no spelling given for a keyword in the definition of the synonyms
\* table is lost: once a call has built the table, every initializer pair's
\* spellings are found under its keyword in the table; so SUBSTRING has
\* SUBSTR and MID, DAY has SQL_TSI_DAY and MEDIUMINT has INT3.
C15_SynonymsComplete ==
  pc # "start" =>
  \A i \in 1..Len(synonymsInitializer) :
    \A n \in 1..Len(synonymsInitializer[i][2]) :
      HasName(SynonymsOf(synonymsInitializer[i][1]), synonymsInitializer[i][2][n])

\* Entries offered to a CompletionSet: a schema and a table named alike.
ProbeEntries ==
  {Entry(kind, text) : kind \in {AC_SCHEMA_IMAGE, AC_TABLE_IMAGE},
                       text \in {<<"s">>, <<"T", "1">>, <<"t", "1">>}}

HasKindAndText(set, e) ==
  \E i \in 1..Len(set) : set[i].kind = e.kind /\ same_string(set[i].text, e.text)

\* C16: a CompletionSet deduplicates by (kind, text): inserting an entry
\* whose kind and text (compared without case) are already in the set
\* leaves the set unchanged, and inserting any other entry adds it, also
\* when an entry of another kind has the same text.
C16_DedupByKindAndText ==
  \A name \in SetNames : \A e \in ProbeEntries :
    LET set == entries[name]
        after == CompletionSetInsert(set, e)
    IN IF HasKindAndText(set, e)
       THEN after = set
       ELSE /\ Len(after) = Len(set) + 1
            /\ \E i \in 1..Len(after) : after[i] = e

-----------------------------------------------------------------------------
(* Properties of the reference list.                                       *)

\* The tables of the references whose alias is the qualifier.
AliasedTables(refs, q) ==
  {refs[i].table : i \in {j \in 1..Len(refs) : same_string(refs[j].alias, q)}}

Triple(reference) ==
  <<tolower(reference.schema), tolower(reference.table), tolower(reference.alias)>>

-----------------------------------------------------------------------------
(* The analyses and the tokens right of the caret.                         *)

\* The stream cut off after the first default channel token at or after the
\* caret.  Two streams that are identical up to and including that token
\* have the same cut stream, so an analysis that gives on every stream what
\* it gives on the cut stream gives the same on both.
CutAfterCaret(toks, caret) ==
  LET c == CaretToken(toks, caret)
  IN IF c = Len(toks) - 1 THEN toks ELSE Append(SubSeq(toks, 1, c + 1), TokEof)

\* C19: the analyses never look forward past the caret: on a stream they
\* return what they return on the stream cut off after the first default
\* channel token at or after the caret, whatever tokens follow it.
C19_NoLookForward ==
  /\ pc = "determineQualifier" =>
       LET cut == determineQualifier(CutAfterCaret(input.tokens, input.caret), input.caret)
       IN qres.flags = cut.flags /\ qres.qualifier = cut.qualifier
  /\ pc = "determineSchemaTableQualifier" =>
       LET cut == determineSchemaTableQualifier(CutAfterCaret(input.tokens, input.caret),
                                                input.caret)
       IN qres.flags = cut.flags /\ qres.schema = cut.schema /\ qres.table = cut.table

\* a^.b with the caret in a: the dot and b right of the caret are not taken
\* for a qualifier.
C19_Witness ==
  /\ pc = "determineQualifier"
  /\ input.tokens = <<TokA, TokDot, TokB, TokEof>>
  /\ input.caret = 0
  /\ CutAfterCaret(input.tokens, input.caret) = <<TokA, TokEof>>
  /\ qres.flags = ShowFirst + ShowSecond
  /\ qres.qualifier = <<>>

-----------------------------------------------------------------------------
(* Well-formed results of the analyses.                                    *)

\* C20: determineQualifier returns ShowFirst|ShowSecond with an empty
\* qualifier or ShowSecond alone; determineSchemaTableQualifier returns
\* ShowSchemas|ShowTables|ShowColumns with schema = table = "",
\* ShowTables|ShowColumns with schema = table, or ShowColumns alone.
C20_WellFormedResults ==
  /\ pc = "determineQualifier" =>
       \/ qres.flags = ShowFirst + ShowSecond /\ qres.qualifier = <<>>
       \/ qres.flags = ShowSecond
  /\ pc = "determineSchemaTableQualifier" =>
       \/ /\ qres.flags = ShowSchemas + ShowTables + ShowColumns
          /\ qres.schema = <<>>
          /\ qres.table = <<>>
       \/ /\ qres.flags = ShowTables + ShowColumns
          /\ qres.schema = qres.table
       \/ qres.flags = ShowColumns

\* a.b^ with the caret at the end of b: ShowTables|ShowColumns with schema
\* and table both a.
C20_Witness ==
  /\ pc = "determineSchemaTableQualifier"
  /\ input.tokens = <<TokA, TokDot, TokB, TokEof>>
  /\ input.caret = 3
  /\ qres.flags = ShowTables + ShowColumns
  /\ qres.schema = <<"a">>
  /\ qres.table = <<"a">>

====
